---- MODULE Spec2Model ----
(***************************************************************************)
(* The /analyze handler of src/app.py: the model-fallback loop over        *)
(* VALID_MODELS, the unwrapping of the provider's response, the JSON       *)
(* extraction and the filling of the result's fields.                      *)
(*                                                                         *)
(* Text is a sequence of lexical tokens, each standing for a fixed run of  *)
(* characters:                                                             *)
(*   "{" "}" "[" "]" ":" ","   the JSON punctuation, one character each    *)
(*   "q0"   a double quote            "q1"   an escaped quote  \"          *)
(*   "n0"   a line feed               "n1"   an escaped line feed  \n      *)
(*   "sp"   a space                   "fence"  three backticks             *)
(*   "1" "5"  digits                  "null" "true"  JSON literals         *)
(*   "json" and the field names       the words, letter for letter         *)
(*   "x"    one character of prose    "X"    BigRun characters of prose    *)
(* A parsed JSON value is a pair <<tag, payload>>:                         *)
(*   <<"obj", <<<<key, value>>, ...>>>>  a dict, in insertion order        *)
(*   <<"arr", <<value, ...>>>>           a list                            *)
(*   <<"str", text>>                     a str (its unescaped text)        *)
(*   <<"num", digits>>  <<"null", <<>>>>  <<"true", <<>>>>                 *)
(***************************************************************************)
EXTENDS Integers, Sequences, FiniteSets, TLC

\* ------------------------------------------------------------ bounds
\* Characters in the long run of prose "X".
BigRun == 499
\* Longest text of braces and prose tried as reasoning_content.
MaxScanLen == 4

\* ------------------------------------------------------- constants
MAX_LOG_LENGTH == 500

VALID_MODELS == <<"mistral-large", "mistral", "llama", "command-r-plus", "openai">>

required_fields == <<"ratings", "passages", "conclusion", "bs_callout">>

\* ------------------------------------------------------------- text
\* Characters a token stands for.
Width(tok) ==
  CASE tok \in {"q1", "n1"} -> 2
    [] tok \in {"fence", "N/A"} -> 3
    [] tok \in {"json", "null", "true"} -> 4
    [] tok \in {"ratings", "choices", "message", "content"} -> 7
    [] tok = "passages" -> 8
    [] tok \in {"conclusion", "bs_callout", "bs_passage"} -> 10
    [] tok = "top_passages" -> 12
    [] tok = "reasoning_content" -> 17
    [] tok = "X" -> BigRun
    [] OTHER -> 1

RECURSIVE StrLen(_)
\* len(s)
StrLen(s) == IF s = <<>> THEN 0 ELSE Width(Head(s)) + StrLen(Tail(s))

IsSpace(tok) == tok \in {"sp", "n0"}

\* s[a..b], empty when b < a.
Slice(s, a, b) == IF b < a THEN <<>> ELSE SubSeq(s, a, b)

\* str.strip()
Strip(s) ==
  LET keep == {i \in 1..Len(s) : ~IsSpace(s[i])}
  IN IF keep = {} THEN <<>>
     ELSE Slice(s, CHOOSE i \in keep : \A j \in keep : i <= j,
                   CHOOSE i \in keep : \A j \in keep : i >= j)

\* str.find(tok): the first index, 0 when there is none.
Find(s, tok) ==
  LET at == {i \in 1..Len(s) : s[i] = tok}
  IN IF at = {} THEN 0 ELSE CHOOSE i \in at : \A j \in at : i <= j

\* str.rfind(tok): the last index, 0 when there is none.
RFind(s, tok) ==
  LET at == {i \in 1..Len(s) : s[i] = tok}
  IN IF at = {} THEN 0 ELSE CHOOSE i \in at : \A j \in at : i >= j

\* s[:n] in characters: the whole tokens that fit, then the cut token and
\* how many of its characters are kept.
Excerpt(s, n) ==
  LET fit == {k \in 0..Len(s) : StrLen(Slice(s, 1, k)) <= n}
      k == CHOOSE i \in fit : \A j \in fit : i >= j
      left == n - StrLen(Slice(s, 1, k))
  IN IF k = Len(s) \/ left = 0
     THEN [whole |-> Slice(s, 1, k), cut |-> "", kept |-> 0]
     ELSE [whole |-> Slice(s, 1, k), cut |-> s[k + 1], kept |-> left]

ExcerptLen(e) == StrLen(e.whole) + e.kept

\* --------------------------------------------------------- json.loads
JFail == <<FALSE, <<"null", <<>>>>, 1>>

SkipWs(t, i) ==
  LET stop == {j \in i..Len(t) : ~IsSpace(t[j])}
  IN IF stop = {} THEN Len(t) + 1 ELSE CHOOSE j \in stop : \A k \in stop : j <= k

\* The text of a string literal, its escapes undone.
Unescape(s) ==
  [i \in 1..Len(s) |-> CASE s[i] = "q1" -> "q0"
                         [] s[i] = "n1" -> "n0"
                         [] OTHER -> s[i]]

\* A string literal opening at t[i]: it closes at the next unescaped quote, and
\* a raw line feed inside it is an invalid control character.
ParseString(t, i) ==
  LET close == {j \in (i + 1)..Len(t) : t[j] = "q0"}
  IN IF close = {} THEN JFail
     ELSE LET j == CHOOSE c \in close : \A d \in close : c <= d
          IN IF \E k \in (i + 1)..(j - 1) : t[k] = "n0" THEN JFail
             ELSE <<TRUE, <<"str", Unescape(Slice(t, i + 1, j - 1))>>, j + 1>>

IsDigit(tok) == tok \in {"1", "5"}

ParseNumber(t, i) ==
  LET stop == {j \in i..Len(t) : ~IsDigit(t[j])}
      e == IF stop = {} THEN Len(t) + 1 ELSE CHOOSE j \in stop : \A k \in stop : j <= k
  IN <<TRUE, <<"num", Slice(t, i, e - 1)>>, e>>

\* dict[key] = value: an existing key keeps its place.
DictPut(pairs, key, value) ==
  IF \E i \in 1..Len(pairs) : pairs[i][1] = key
  THEN [i \in 1..Len(pairs) |-> IF pairs[i][1] = key THEN <<key, value>> ELSE pairs[i]]
  ELSE Append(pairs, <<key, value>>)

RECURSIVE ParseValue(_, _), ParseMembers(_, _, _), ParseElems(_, _, _)
\* One JSON value starting at t[i]: <<ok, value, index after it>>.
ParseValue(t, i) ==
  IF i > Len(t) THEN JFail
  ELSE CASE t[i] = "{" ->
              LET j == SkipWs(t, i + 1)
              IN IF j <= Len(t) /\ t[j] = "}" THEN <<TRUE, <<"obj", <<>>>>, j + 1>>
                 ELSE ParseMembers(t, j, <<>>)
         [] t[i] = "[" ->
              LET j == SkipWs(t, i + 1)
              IN IF j <= Len(t) /\ t[j] = "]" THEN <<TRUE, <<"arr", <<>>>>, j + 1>>
                 ELSE ParseElems(t, j, <<>>)
         [] t[i] = "q0" -> ParseString(t, i)
         [] IsDigit(t[i]) -> ParseNumber(t, i)
         [] t[i] = "null" -> <<TRUE, <<"null", <<>>>>, i + 1>>
         [] t[i] = "true" -> <<TRUE, <<"true", <<>>>>, i + 1>>
         [] OTHER -> JFail

\* The members of an object from a key at t[i] on; acc holds those read so far.
ParseMembers(t, i, acc) ==
  IF i > Len(t) \/ t[i] # "q0" THEN JFail
  ELSE LET k == ParseString(t, i)
           c == SkipWs(t, k[3])
       IN IF ~k[1] \/ c > Len(t) \/ t[c] # ":" THEN JFail
          ELSE LET v == ParseValue(t, SkipWs(t, c + 1))
                   m == SkipWs(t, v[3])
                   got == DictPut(acc, k[2][2], v[2])
               IN IF ~v[1] \/ m > Len(t) THEN JFail
                  ELSE IF t[m] = "," THEN ParseMembers(t, SkipWs(t, m + 1), got)
                  ELSE IF t[m] = "}" THEN <<TRUE, <<"obj", got>>, m + 1>>
                  ELSE JFail

\* The elements of an array from t[i] on.
ParseElems(t, i, acc) ==
  LET v == ParseValue(t, i)
      m == SkipWs(t, v[3])
  IN IF ~v[1] \/ m > Len(t) THEN JFail
     ELSE IF t[m] = "," THEN ParseElems(t, SkipWs(t, m + 1), Append(acc, v[2]))
     ELSE IF t[m] = "]" THEN <<TRUE, <<"arr", Append(acc, v[2])>>, m + 1>>
     ELSE JFail

\* json.loads(t): <<TRUE, value>>, or <<FALSE, _>> for a JSONDecodeError.
json_loads(t) ==
  LET v == ParseValue(t, SkipWs(t, 1))
  IN IF v[1] /\ SkipWs(t, v[3]) = Len(t) + 1 THEN <<TRUE, v[2]>>
     ELSE <<FALSE, <<"null", <<>>>>>>

\* ------------------------------------------------- markdown fences
RECURSIVE SubLeadingFence(_, _)
\* re.sub(r'^```(?:json)?\s*\n?', '', s, flags=re.MULTILINE) from s[i] on: a
\* fence at the start of a line goes, with a "json" after it and all the
\* white space that follows.
SubLeadingFence(s, i) ==
  IF i > Len(s) THEN <<>>
  ELSE IF s[i] = "fence" /\ (i = 1 \/ s[i - 1] = "n0")
       THEN LET j == IF i + 1 <= Len(s) /\ s[i + 1] = "json" THEN i + 2 ELSE i + 1
            IN SubLeadingFence(s, SkipWs(s, j))
       ELSE <<s[i]>> \o SubLeadingFence(s, i + 1)

RECURSIVE SubTrailingFence(_, _)
\* re.sub(r'\n?```\s*$', '', s, flags=re.MULTILINE) from s[i] on: a fence at
\* the end of a line goes, with one line feed before it and the white space
\* up to the end of the text, or else up to the last line feed of the run.
SubTrailingFence(s, i) ==
  IF i > Len(s) THEN <<>>
  ELSE LET f == IF s[i] = "n0" /\ i + 1 <= Len(s) /\ s[i + 1] = "fence" THEN i + 1
                ELSE IF s[i] = "fence" THEN i ELSE 0
           w == SkipWs(s, f + 1)
           nls == {j \in (f + 1)..(w - 1) : s[j] = "n0"}
       IN IF f = 0 THEN <<s[i]>> \o SubTrailingFence(s, i + 1)
          ELSE IF w = Len(s) + 1 THEN <<>>
          ELSE IF nls = {} THEN <<s[i]>> \o SubTrailingFence(s, i + 1)
          ELSE SubTrailingFence(s, CHOOSE j \in nls : \A k \in nls : j >= k)

\* Lines 182-184.
StripFences(s) == Strip(SubTrailingFence(SubLeadingFence(s, 1), 1))

\* ------------------------------------------------- Python's values
None == <<"null", <<>>>>

Str(text) == <<"str", text>>

\* bool(v): None, "", [] and {} are false (the texts hold no 0 and no false).
Truthy(v) ==
  CASE v[1] = "null" -> FALSE
    [] v[1] \in {"str", "arr", "obj"} -> v[2] # <<>>
    [] OTHER -> TRUE

\* key in d, for a dict d
HasKey(d, key) == \E i \in 1..Len(d[2]) : d[2][i][1] = <<key>>

\* d[key], for a dict d that has it
GetKey(d, key) == LET i == CHOOSE j \in 1..Len(d[2]) : d[2][j][1] = <<key>> IN d[2][i][2]

\* d.get(key, default)
DictGet(d, key, default) == IF HasKey(d, key) THEN GetKey(d, key) ELSE default

\* Whether the characters of `word` occur in the text.
HasSubstring(text, word) ==
  \E i \in 1..Len(text) :
    \/ text[i] = word
    \/ word = "passages" /\ text[i] = "top_passages"

\* field in v: "yes", "no", or the exception raised.
Contains(v, field) ==
  CASE v[1] = "obj" -> IF HasKey(v, field) THEN "yes" ELSE "no"
    [] v[1] = "arr" -> IF \E i \in 1..Len(v[2]) : v[2][i] = Str(<<field>>) THEN "yes" ELSE "no"
    [] v[1] = "str" -> IF HasSubstring(v[2], field) THEN "yes" ELSE "no"
    [] OTHER -> "TypeError"

\* The exceptions the handler of line 174 catches.
CaughtAtLine174 == {"JSONDecodeError", "ValueError", "KeyError", "IndexError", "TypeError"}

\* ------------------------------------------------------- unwrapping
\* Line 141: parsed_response['choices'][0].get('message', {}).get('content', '')
ChoicesContent(parsed_response) ==
  LET choices == GetKey(parsed_response, "choices")
      first == choices[2][1]
      message == DictGet(first, "message", <<"obj", <<>>>>)
  IN IF choices[1] = "obj" THEN [exc |-> "KeyError", v |-> None]
     ELSE IF choices[1] \in {"num", "null", "true"} THEN [exc |-> "TypeError", v |-> None]
     ELSE IF choices[2] = <<>> THEN [exc |-> "IndexError", v |-> None]
     ELSE IF choices[1] = "str" THEN [exc |-> "AttributeError", v |-> None]
     ELSE IF first[1] # "obj" THEN [exc |-> "AttributeError", v |-> None]
     ELSE IF message[1] # "obj" THEN [exc |-> "AttributeError", v |-> None]
     ELSE [exc |-> "", v |-> DictGet(message, "content", Str(<<>>))]

RECURSIVE BraceLoop_FirstClose(_, _, _, _)
\* The scan stopping at the first closing brace, the depth not counted.
BraceLoop_FirstClose(reasoning, start_idx, i, brace_count) ==
  IF i > Len(reasoning) THEN <<FALSE, <<>>>>
  ELSE IF reasoning[i] = "}" THEN <<TRUE, Slice(reasoning, start_idx, i)>>
  ELSE BraceLoop_FirstClose(reasoning, start_idx, i + 1, brace_count)

RECURSIVE BraceLoop(_, _, _, _)
\* Lines 156-163: the loop from index i with brace_count open braces.
BraceLoop(reasoning, start_idx, i, brace_count) ==
  IF i > Len(reasoning) THEN <<FALSE, <<>>>>
  ELSE IF reasoning[i] = "{"
       THEN BraceLoop(reasoning, start_idx, i + 1, brace_count + 1)
  ELSE IF reasoning[i] = "}"
       THEN IF brace_count - 1 = 0 THEN <<TRUE, Slice(reasoning, start_idx, i)>>
            ELSE BraceLoop(reasoning, start_idx, i + 1, brace_count - 1)
  ELSE BraceLoop(reasoning, start_idx, i + 1, brace_count)

\* Lines 153-163: <<TRUE, the balanced object>> or <<FALSE, _>>.
BraceScan(reasoning) ==
  LET start_idx == Find(reasoning, "{")
  IN IF start_idx = 0 THEN <<FALSE, <<>>>>
     ELSE BraceLoop(reasoning, start_idx, start_idx + 1, 1)

\* Lines 137-163: the content found in a dict, or the exception raised.
FindContent(parsed_response) ==
  LET c1 == IF HasKey(parsed_response, "choices") THEN ChoicesContent(parsed_response)
            ELSE [exc |-> "", v |-> None]
      c2 == IF ~Truthy(c1.v) /\ HasKey(parsed_response, "content")
            THEN GetKey(parsed_response, "content") ELSE c1.v
      reasoning == GetKey(parsed_response, "reasoning_content")
      scan == BraceScan(reasoning[2])
  IN IF c1.exc # "" THEN c1
     ELSE IF ~Truthy(c2) /\ HasKey(parsed_response, "reasoning_content")
          THEN IF reasoning[1] # "str" THEN [exc |-> "AttributeError", v |-> None]
               ELSE [exc |-> "", v |-> IF scan[1] THEN Str(scan[2]) ELSE c2]
          ELSE [exc |-> "", v |-> c2]

\* Line 171
HasRequired(v) == \A i \in 1..Len(required_fields) : HasKey(v, required_fields[i])

\* Lines 127-177 on response.text: the exception that leaves the handler's
\* inner try ("" for none), ai_content and result (None when not set).
Unwrap(text) ==
  LET raw == Strip(text)
      parsed == json_loads(raw)
      found == FindContent(parsed[2])
  IN IF ~parsed[1] \/ parsed[2][1] # "obj"
     THEN [exc |-> "", ai_content |-> Str(raw), result |-> None]
     ELSE IF found.exc \in CaughtAtLine174
     THEN [exc |-> "", ai_content |-> Str(raw), result |-> None]
     ELSE IF found.exc # ""
     THEN [exc |-> found.exc, ai_content |-> Str(raw), result |-> None]
     ELSE [exc |-> "",
           ai_content |-> IF Truthy(found.v) THEN found.v ELSE Str(raw),
           result |-> IF HasRequired(parsed[2]) THEN parsed[2] ELSE None]

\* ------------------------------------------------------- extraction
\* Lines 182-208 on ai_content: the exception raised ("" for none), the error
\* returned ("" for none), the stripped text and the value parsed.
Extract(ai_content) ==
  LET s == StripFences(ai_content[2])
      direct == json_loads(s)
      json_start == Find(s, "{")
      json_end == RFind(s, "}")
      inner == json_loads(Slice(s, json_start, json_end))
  IN IF ai_content[1] # "str"
     THEN [exc |-> "TypeError", error |-> "", text |-> <<>>, result |-> None]
     ELSE IF direct[1]
     THEN [exc |-> "", error |-> "", text |-> s, result |-> direct[2]]
     ELSE IF json_start # 0 /\ json_end # 0 /\ json_end > json_start
     THEN IF inner[1]
          THEN [exc |-> "", error |-> "", text |-> s, result |-> inner[2]]
          ELSE [exc |-> "", error |-> "JSONDecodeError", text |-> s, result |-> None]
     ELSE [exc |-> "", error |-> "No valid JSON found in response", text |-> s,
           result |-> None]

\* ------------------------------------------------------- the fields
\* The default of lines 214, 218 and 220.
Default(field) ==
  CASE field \in {"ratings", "passages"} -> <<"obj", <<>>>>
    [] field = "bs_passage" -> Str(<<>>)
    [] field = "top_passages" -> <<"arr", <<>>>>
    [] OTHER -> Str(<<"N/A">>)

AllFields == required_fields \o <<"bs_passage", "top_passages">>

RECURSIVE FillFrom(_, _)
\* Lines 212-220 from the i-th field on: `if field not in result:
\* result[field] = default`, which raises for a result that is no dict.
FillFrom(result, i) ==
  IF i > Len(AllFields) THEN [exc |-> "", result |-> result]
  ELSE LET has == Contains(result, AllFields[i])
       IN IF has = "TypeError" THEN [exc |-> "TypeError", result |-> result]
          ELSE IF has = "yes" THEN FillFrom(result, i + 1)
          ELSE IF result[1] # "obj" THEN [exc |-> "TypeError", result |-> result]
          ELSE FillFrom(<<"obj", DictPut(result[2], <<AllFields[i]>>, Default(AllFields[i]))>>,
                        i + 1)

\* Lines 210-220
Validate(result) == FillFrom(result, 1)

\* ------------------------------------------------ provider responses
\* A string literal holding `text`, which holds no quote.
Quoted(text) == <<"q0">> \o text \o <<"q0">>

\* `text` as it stands inside a string literal: quotes and line feeds escaped.
Escaped(text) ==
  [i \in 1..Len(text) |-> CASE text[i] = "q0" -> "q1"
                            [] text[i] = "n0" -> "n1"
                            [] OTHER -> text[i]]

\* "key": value
Member(key, value) == Quoted(<<key>>) \o <<":">> \o value

RECURSIVE Joined(_)
\* The members, comma-separated.
Joined(members) ==
  IF members = <<>> THEN <<>>
  ELSE IF Len(members) = 1 THEN members[1]
  ELSE members[1] \o <<",">> \o Joined(Tail(members))

Object(members) == <<"{">> \o Joined(members) \o <<"}">>

\* The four required fields, as a model that follows the prompt writes them.
FourFields ==
  << Member("ratings", <<"{", "}">>), Member("passages", <<"{", "}">>),
     Member("bs_callout", Quoted(<<"x">>)), Member("conclusion", Quoted(<<"x">>)) >>

\* An analysis with a rating, and no conclusion.
PartialObject ==
  Object(<< Member("ratings", Object(<<Member("x", Quoted(<<"x">>))>>)),
            Member("bs_callout", Quoted(<<"x">>)) >>)

\* Texts of braces and prose, up to MaxScanLen tokens.
RECURSIVE ScanTexts(_)
ScanTexts(n) ==
  IF n = 0 THEN {<<>>}
  ELSE LET shorter == ScanTexts(n - 1)
       IN shorter \cup {Append(t, c) : t \in {u \in shorter : Len(u) = n - 1},
                                       c \in {"{", "}", "x"}}

\* What a content string may hold.
ContentTexts ==
  { <<>>, <<"x">>, PartialObject, Object(FourFields),
    <<"fence", "json", "n0">> \o PartialObject \o <<"n0", "fence">>,
    <<"x", "sp">> \o PartialObject \o <<"sp", "x">>,
    <<"x", "{", "x", "}">> }

\* Values of a "choices" member.
ChoicesValues ==
  { <<"[", "]">>, <<"[", "5", "]">>, <<"{", "}">>, <<"null">>, <<"5">>,
    Quoted(<<>>), Quoted(<<"x">>), <<"[", "{", "}", "]">>,
    <<"[">> \o Object(<<Member("message", <<"null">>)>>) \o <<"]">> }
  \cup { <<"[">> \o Object(<<Member("message", Object(<<Member("content", Quoted(Escaped(c)))>>))>>)
         \o <<"]">> : c \in ContentTexts }

\* Values of a "content" member.
ContentValues ==
  { <<"null">>, <<"5">>, <<"{", "}">>, <<"[", "5", "]">> }
  \cup { Quoted(Escaped(c)) : c \in ContentTexts }

\* Values of a "reasoning_content" member.
ReasoningValues ==
  { <<"null">>, <<"5">>, <<"[", "]">>,
    Quoted(Escaped(<<"x", "sp">> \o Object(<<Member("x", PartialObject)>> \o FourFields)
                   \o <<"sp", "x">>)) }
  \cup { Quoted(t) : t \in ScanTexts(MaxScanLen) }

\* The members an envelope may carry beside the analysis.
EnvelopeMembers ==
  { <<>> } \cup { <<Member("choices", v)>> : v \in ChoicesValues }
  \cup { <<Member("content", v)>> : v \in ContentValues }
  \cup { <<Member("reasoning_content", v)>> : v \in ReasoningValues }
  \cup { <<Member("choices", c), Member("content", v)>> :
           c \in {<<"[", "]">>, <<"[", "{", "}", "]">>, <<"[", "5", "]">>},
           v \in {Quoted(Escaped(PartialObject)), Quoted(<<>>)} }
  \cup { <<Member("content", c), Member("reasoning_content", v)>> :
           c \in {Quoted(<<>>), Quoted(<<"x">>), <<"null">>},
           v \in {Quoted(<<"x", "{", "}", "x">>), <<"5">>} }
  \cup { <<Member("choices", <<"[", "]">>), Member("reasoning_content", Quoted(<<"{", "}">>))>> }

\* Bodies that are one JSON object.
ObjectBodies ==
  { Object(e) : e \in EnvelopeMembers }
  \cup { Object(FourFields \o e) : e \in EnvelopeMembers }
  \cup { Object(e \o FourFields) : e \in EnvelopeMembers }
  \cup { Object(FourFields \o <<Member("bs_passage", Quoted(<<"x">>))>>),
         Object(FourFields \o <<Member("top_passages", <<"[", "]">>)>>),
         PartialObject,
         <<"sp">> \o Object(FourFields) \o <<"n0">> }

\* Bodies that are JSON, and no object.
ValueBodies ==
  { <<"5">>, <<"1", "5">>, <<"null">>, <<"true">>, <<"[", "]">>, <<"[", "5", "]">>,
    Quoted(<<>>), Quoted(<<"x">>), <<"[">> \o PartialObject \o <<"]">>,
    <<"[">> \o Joined([i \in 1..Len(AllFields) |-> Quoted(<<AllFields[i]>>)]) \o <<"]">>,
    Quoted(AllFields), Quoted(<<"ratings", "conclusion", "bs_callout", "bs_passage",
                                "top_passages">>),
    Quoted(<<"ratings">>) }

\* Bodies that are no JSON document: prose, fenced or wrapped or broken JSON.
ProseBodies ==
  { <<>>, <<"sp">>, <<"x">>, <<"x", "sp", "x">>, <<"X", "x", "x">>,
    <<"fence", "json", "n0">> \o Object(FourFields) \o <<"n0", "fence">>,
    <<"fence", "n0">> \o PartialObject \o <<"n0", "fence", "sp", "n0">>,
    <<"fence", "json", "n0">> \o <<"[", "5", "]">> \o <<"n0", "fence">>,
    <<"fence", "json", "n0", "5", "n0", "fence">>,
    <<"x", "fence", "json", "n0">> \o PartialObject \o <<"fence", "sp", "x">>,
    <<"x", "sp">> \o PartialObject \o <<"sp", "x">>,
    <<"x", "sp">> \o PartialObject \o <<"sp">> \o PartialObject,
    <<"x", "sp", "{", "x", "}">>, <<"X", "x", "{", "x", "}">>, <<"{", "x", "X", "x", "}">>,
    <<"x", "}", "{">>, <<"{", "x">>, <<"}", "x">>, <<"{", "}", "x">>, <<"x", "{", "}">>,
    <<"{", "q0", "x", "q0", "}">>, <<"{", "q0", "x", "q0", ":", "}">>,
    <<"[", "5", "]", "x">>, <<"x", "[", "5", "]">>, <<"q0", "{", "}">> }

\* Every body a call may answer with.
Bodies == ObjectBodies \cup ValueBodies \cup ProseBodies

\* The bodies tried with every outcome of the fallback loop.
FewBodies ==
  { <<"x">>, <<"X">>, <<"X", "x">>, <<"X", "x", "x">>, <<"{", "x", "X", "x", "}">>,
    Object(FourFields), PartialObject, <<"[", "5", "]">>,
    <<"x", "sp">> \o PartialObject \o <<"sp", "x">> }

\* Status codes a call may answer with.
StatusCodes == {200, 404, 500, 503}

\* ---------------------------------------------------------- the state
VARIABLES
  pc,             \* where the handler is: "loop", "call", "after_loop", "unwrap",
                  \* "extract", "validate", "done"
  idx,            \* the for loop's position in VALID_MODELS
  payload_model,  \* payload["model"]
  response,       \* [none, status_code, text]: the last value requests.post returned
  last_error,     \* <<cause, model_name>>, <<"None", "">> at first
  ai_content,     \* a Python value: a str at first
  result,         \* a Python value, None at first
  returned,       \* what the handler returned, once pc = "done"
  calls,          \* history: the calls issued, each [model, outcome], the outcome
                  \* <<"pending", 0>>, <<"status", code>>, <<"Timeout", 0>> or
                  \* <<"RequestException", 0>>
  in_flight,      \* history: the models whose call has not returned
  stages          \* history: the stages run on the response

vars == <<pc, idx, payload_model, response, last_error, ai_content, result, returned,
          calls, in_flight, stages>>

NoResponse == [none |-> TRUE, status_code |-> 0, text |-> <<>>]

NoError == <<"None", "">>

Absent == <<"absent", <<>>>>

NotReturned ==
  [code |-> 0, error |-> "", status_code |-> 0, details |-> Absent, raw_response |-> Absent,
   result |-> None]

\* jsonify(result)
Success(value) ==
  [code |-> 200, error |-> "", status_code |-> 0, details |-> Absent,
   raw_response |-> Absent, result |-> value]

\* jsonify({'error': ..., 'details': ..., 'raw_response': ...}), code
Failure(code, error, details, raw_response) ==
  [code |-> code, error |-> error, status_code |-> 0, details |-> details,
   raw_response |-> raw_response, result |-> None]

\* Line 124: f'AI API error: {response.status_code}', with the response's text.
ApiError(resp) ==
  [code |-> 500, error |-> "AI API error", status_code |-> resp.status_code,
   details |-> <<"text", resp.text>>, raw_response |-> Absent, result |-> None]

\* Line 229: the handler's last except clause.
Unexpected == Failure(500, "An unexpected error occurred. Please try again.", Absent, Absent)

\* The state at line 86, the payload built.
Init ==
  /\ pc = "loop"
  /\ idx = 1
  /\ payload_model = "mistral-large"
  /\ response = NoResponse
  /\ last_error = NoError
  /\ ai_content = Str(<<>>)
  /\ result = None
  /\ returned = NotReturned
  /\ calls = <<>>
  /\ in_flight = {}
  /\ stages = <<>>

\* The outcome of the call in flight, noted in the history.
Ended(kind, status_code) == [calls EXCEPT ![Len(calls)].outcome = <<kind, status_code>>]

\* `continue`: the next model, or the end of the loop.
Continue ==
  /\ idx' = idx + 1
  /\ pc' = IF idx + 1 > Len(VALID_MODELS) THEN "after_loop" ELSE "loop"

\* The loop going on after every status but 200.
TriesNext_AnyFailure(status_code) == status_code # 200

\* Whether a status makes the loop go on to the next model (line 99).
TriesNext(status_code) == status_code = 404

\* Lines 86-92: the loop takes the next model and posts the request.
TryModel ==
  /\ pc = "loop"
  /\ idx <= Len(VALID_MODELS)
  /\ payload_model' = VALID_MODELS[idx]
  /\ calls' = Append(calls, [model |-> VALID_MODELS[idx], outcome |-> <<"pending", 0>>])
  /\ in_flight' = in_flight \cup {VALID_MODELS[idx]}
  /\ pc' = "call"
  /\ UNCHANGED <<idx, response, last_error, ai_content, result, returned, stages>>

\* Lines 92-105: requests.post returns a response.
Responds(status_code, text) ==
  /\ pc = "call"
  /\ response' = [none |-> FALSE, status_code |-> status_code, text |-> text]
  /\ calls' = Ended("status", status_code)
  /\ in_flight' = in_flight \ {payload_model}
  /\ IF TriesNext(status_code)
     THEN /\ last_error' = <<"not found (404)", payload_model>>
          /\ Continue
     ELSE /\ pc' = "after_loop"
          /\ UNCHANGED <<idx, last_error>>
  /\ UNCHANGED <<payload_model, ai_content, result, returned, stages>>

\* Lines 107-110: requests.post raises requests.Timeout.
TimesOut ==
  /\ pc = "call"
  /\ calls' = Ended("Timeout", 0)
  /\ in_flight' = in_flight \ {payload_model}
  /\ last_error' = <<"Timeout", payload_model>>
  /\ Continue
  /\ UNCHANGED <<payload_model, response, ai_content, result, returned, stages>>

\* Lines 111-114: requests.post raises another requests.RequestException.
RequestFails ==
  /\ pc = "call"
  /\ calls' = Ended("RequestException", 0)
  /\ in_flight' = in_flight \ {payload_model}
  /\ last_error' = <<"Request error", payload_model>>
  /\ Continue
  /\ UNCHANGED <<payload_model, response, ai_content, result, returned, stages>>

\* The 404 of the last response forgotten.
AllFailed_NoResponseOnly(resp) == resp.none

\* Whether no model answered (line 117).
AllFailed(resp) == resp.none \/ resp.status_code = 404

\* The status check left out.
IsSuccess_Unchecked(status_code) == TRUE

\* Whether the response is parsed (line 123).
IsSuccess(status_code) == status_code = 200

\* The 'details' of the error of lines 118-121.
FailureDetails(err) ==
  IF err = NoError THEN <<"str", "Unable to connect to AI service">>
  ELSE <<"last_error", err>>

\* Lines 117-124: after the loop.
AfterLoop ==
  /\ pc = "after_loop"
  /\ IF AllFailed(response)
     THEN /\ returned' = Failure(500, "All AI models failed", FailureDetails(last_error),
                                 Absent)
          /\ pc' = "done"
     ELSE IF ~IsSuccess(response.status_code)
     THEN /\ returned' = ApiError(response)
          /\ pc' = "done"
     ELSE /\ pc' = "unwrap"
          /\ UNCHANGED returned
  /\ UNCHANGED <<idx, payload_model, response, last_error, ai_content, result, calls,
                 in_flight, stages>>

\* Lines 127-177: the response is unwrapped.
DoUnwrap ==
  /\ pc = "unwrap"
  /\ LET u == Unwrap(response.text)
     IN /\ ai_content' = u.ai_content
        /\ result' = u.result
        /\ IF u.exc # ""
           THEN pc' = "done" /\ returned' = Unexpected
           ELSE /\ pc' = IF u.result = None THEN "extract" ELSE "validate"
                /\ UNCHANGED returned
  /\ stages' = Append(stages, "unwrap")
  /\ UNCHANGED <<idx, payload_model, response, last_error, calls, in_flight>>

\* Lines 180-208: no result yet, so JSON is looked for in ai_content.
DoExtract ==
  /\ pc = "extract"
  /\ LET e == Extract(ai_content)
     IN /\ ai_content' = IF e.exc # "" THEN ai_content ELSE Str(e.text)
        /\ result' = e.result
        /\ IF e.exc # ""
           THEN pc' = "done" /\ returned' = Unexpected
           ELSE IF e.error # ""
           THEN /\ pc' = "done"
                /\ returned' = Failure(500, "Failed to parse AI response as JSON",
                                       <<"str", e.error>>,
                                       <<"excerpt", Excerpt(e.text, MAX_LOG_LENGTH)>>)
           ELSE pc' = "validate" /\ UNCHANGED returned
  /\ stages' = Append(stages, "extract")
  /\ UNCHANGED <<idx, payload_model, response, last_error, calls, in_flight>>

\* Lines 210-222: the fields are filled and the result returned.
DoValidate ==
  /\ pc = "validate"
  /\ LET v == Validate(result)
     IN /\ result' = v.result
        /\ returned' = IF v.exc # "" THEN Unexpected ELSE Success(v.result)
  /\ pc' = "done"
  /\ stages' = Append(stages, "validate")
  /\ UNCHANGED <<idx, payload_model, response, last_error, ai_content, calls, in_flight>>

\* Every outcome of every call, over a few bodies.
Next ==
  \/ TryModel
  \/ \E status_code \in StatusCodes, text \in FewBodies : Responds(status_code, text)
  \/ TimesOut
  \/ RequestFails
  \/ AfterLoop
  \/ DoUnwrap
  \/ DoExtract
  \/ DoValidate

Spec == Init /\ [][Next]_vars

\* Every body, answered after any number of models that were not found.
NextParse ==
  \/ TryModel
  \/ Responds(404, <<"x">>)
  \/ \E text \in Bodies : Responds(200, text)
  \/ AfterLoop
  \/ DoUnwrap
  \/ DoExtract
  \/ DoValidate

SpecParse == Init /\ [][NextParse]_vars

\* ---------------------------------------------------------- the claims
\* A call that ended in a cause the loop retries: a timeout, a transport
\* error or a 404.
Retried(outcome) ==
  outcome[1] \in {"Timeout", "RequestException"} \/ outcome = <<"status", 404>>

\* The last_error the loop records for a call.
CauseOf(call) ==
  << CASE call.outcome[1] = "Timeout" -> "Timeout"
       [] call.outcome[1] = "RequestException" -> "Request error"
       [] OTHER -> "not found (404)",
     call.model >>

\* The body of the response, parsed.
ParsedBody == json_loads(Strip(response.text))

\* The unwrapping has run on the response and nothing after it.
JustUnwrapped == stages = <<"unwrap">> /\ pc # "done"

\* C1: the models are called in the order of VALID_MODELS, each at most once
\* and one at a time; a call is followed by another only when it ended in a
\* timeout, a transport error or a 404, so that after any other response no
\* model is called, whatever becomes of the response.
C1_SequentialFallback ==
  /\ Cardinality(in_flight) <= 1
  /\ Len(calls) <= Len(VALID_MODELS)
  /\ \A i \in 1..Len(calls) : calls[i].model = VALID_MODELS[i]
  /\ \A i \in 1..(Len(calls) - 1) : Retried(calls[i].outcome)
  /\ in_flight = {c \in {calls[i].model : i \in 1..Len(calls)} :
                    \E i \in 1..Len(calls) : calls[i].model = c /\ calls[i].outcome[1] = "pending"}

\* C1's case: the third model answers 200 after a timeout and a 404, and its
\* content fails to parse.
C1_Witness ==
  /\ pc = "done"
  /\ Len(calls) = 3
  /\ calls[1].outcome[1] = "Timeout"
  /\ calls[2].outcome = <<"status", 404>>
  /\ calls[3].outcome = <<"status", 200>>
  /\ returned.error = "Failed to parse AI response as JSON"

\* C2: when the call of every model ended in a timeout, a transport error or
\* a 404, the handler returns 'All AI models failed' with the cause of the
\* last model's call as details.
C2_AllFailedLastCause ==
  ( /\ pc = "done"
    /\ Len(calls) = Len(VALID_MODELS)
    /\ \A i \in 1..Len(calls) : Retried(calls[i].outcome) )
  => /\ returned.code = 500
     /\ returned.error = "All AI models failed"
     /\ returned.details = <<"last_error", CauseOf(calls[Len(calls)])>>

\* C2's case: a mix of causes, the last one a 404 after a timeout.
C2_Witness ==
  /\ pc = "done"
  /\ Len(calls) = Len(VALID_MODELS)
  /\ calls[1].outcome[1] = "RequestException"
  /\ calls[4].outcome[1] = "Timeout"
  /\ calls[5].outcome = <<"status", 404>>
  /\ returned.error = "All AI models failed"

\* A status that is neither 200 nor 404.
OtherStatus(outcome) == outcome[1] = "status" /\ outcome[2] \notin {200, 404}

\* C3: a call answered with a status that is neither 200 nor 404 is the last
\* call, no stage runs on its body, and the handler returns the AI API error
\* of that status.
C3_ProviderErrorTerminal ==
  \A i \in 1..Len(calls) :
    OtherStatus(calls[i].outcome)
    => /\ i = Len(calls)
       /\ stages = <<>>
       /\ ai_content = Str(<<>>) /\ result = None
       /\ pc \in {"after_loop", "done"}
       /\ pc = "done" => /\ returned.error = "AI API error"
                         /\ returned.code = 500
                         /\ returned.status_code = calls[i].outcome[2]

\* C3's case: the second model answers 503 after a 404.
C3_Witness ==
  /\ pc = "done"
  /\ Len(calls) = 2
  /\ calls[1].outcome = <<"status", 404>>
  /\ calls[2].outcome = <<"status", 503>>
  /\ returned.error = "AI API error"

\* The six fields of a result.
IsCanonical(value) ==
  /\ value[1] = "obj"
  /\ \A i \in 1..Len(AllFields) : HasKey(value, AllFields[i])

\* C4: every result returned as a success holds the six fields.
C4_SuccessHasSixFields ==
  (pc = "done" /\ returned.code = 200) => IsCanonical(returned.result)

\* C5: an error carries at most MAX_LOG_LENGTH characters of the provider's
\* response text.
C5_ErrorExcerptBounded ==
  (pc = "done" /\ returned.error # "")
  => /\ returned.details[1] = "text" => StrLen(returned.details[2]) <= MAX_LOG_LENGTH
     /\ returned.raw_response[1] = "excerpt"
        => ExcerptLen(returned.raw_response[2]) <= MAX_LOG_LENGTH

\* C6: what the handler returns is a canonical result or an error object with
\* a message.
C6_ResultOrError ==
  pc = "done"
  => \/ returned.code = 200 /\ returned.error = "" /\ IsCanonical(returned.result)
     \/ returned.code >= 400 /\ returned.error # ""

\* The object with bs_passage and top_passages added when absent.
WithOptionalFields(obj) ==
  LET one == IF HasKey(obj, "bs_passage") THEN obj[2]
             ELSE Append(obj[2], <<<<"bs_passage">>, Str(<<>>)>>)
  IN <<"obj", IF HasKey(obj, "top_passages") THEN one
              ELSE Append(one, <<<<"top_passages">>, <<"arr", <<>>>>>>)>>

\* C7: a 200 body that is an object with the four required fields is returned
\* as it is, with bs_passage and top_passages added when absent, whatever
\* else it carries.
C7_DirectSchemaReturned ==
  ( /\ pc = "done"
    /\ ~response.none /\ response.status_code = 200
    /\ ParsedBody[1] /\ ParsedBody[2][1] = "obj" /\ HasRequired(ParsedBody[2]) )
  => /\ returned.code = 200
     /\ returned.result = WithOptionalFields(ParsedBody[2])

\* C8: in an object without the required fields whose choices are missing or
\* an empty array, a non-empty content string is what the extractor is given.
C8_EmptyChoicesFallThrough ==
  ( /\ JustUnwrapped
    /\ ParsedBody[1] /\ ParsedBody[2][1] = "obj" /\ ~HasRequired(ParsedBody[2])
    /\ HasKey(ParsedBody[2], "choices") => GetKey(ParsedBody[2], "choices") = <<"arr", <<>>>>
    /\ HasKey(ParsedBody[2], "content")
    /\ GetKey(ParsedBody[2], "content")[1] = "str"
    /\ GetKey(ParsedBody[2], "content")[2] # <<>> )
  => /\ pc = "extract"
     /\ ai_content = GetKey(ParsedBody[2], "content")

\* C9: what the extraction hands to the filling of the fields is an object.
C9_ExtractedIsObject ==
  (pc = "validate" /\ stages = <<"unwrap", "extract">>) => result[1] = "obj"

\* Open braces less closed braces in text[a..b].
Depth(text, a, b) ==
  Cardinality({k \in a..b : text[k] = "{"}) - Cardinality({k \in a..b : text[k] = "}"})

\* The indices after the first "{" at which the depth is back to zero.
Closings(text) ==
  {i \in (Find(text, "{") + 1)..Len(text) : Depth(text, Find(text, "{"), i) = 0}

\* The response is an object whose content comes from reasoning_content: no
\* choices, no content or an empty one, and a reasoning_content string.
FromReasoning ==
  /\ ParsedBody[1] /\ ParsedBody[2][1] = "obj"
  /\ ~HasKey(ParsedBody[2], "choices")
  /\ HasKey(ParsedBody[2], "content") => ~Truthy(GetKey(ParsedBody[2], "content"))
  /\ HasKey(ParsedBody[2], "reasoning_content")
  /\ GetKey(ParsedBody[2], "reasoning_content")[1] = "str"

\* C10: the content taken from reasoning_content runs from the first "{" to
\* the first index at which the depth is back to zero; without such an index
\* the raw body is what goes on.
C10_BalancedBraceScan ==
  (JustUnwrapped /\ FromReasoning)
  => LET reasoning == GetKey(ParsedBody[2], "reasoning_content")[2]
         ends == Closings(reasoning)
     IN IF Find(reasoning, "{") # 0 /\ ends # {}
        THEN ai_content = Str(Slice(reasoning, Find(reasoning, "{"),
                                    CHOOSE i \in ends : \A j \in ends : i <= j))
        ELSE ai_content = Str(Strip(response.text))

\* C10's case: an object with a nested object, prose before and after it.
C10_Witness ==
  /\ JustUnwrapped /\ FromReasoning
  /\ ai_content = Str(Object(<<Member("x", PartialObject)>> \o FourFields))

====
